---- MODULE Spec2Model ----
(***************************************************************************)
(* Topic priority scoring (app/services/priority.py) over the questions    *)
(* table (app/models.py), its endpoint (app/routes/priority.py), the        *)
(* question generator (app/services/mcq.py), the text chunkers             *)
(* (app/services/flashcard_service.py, app/routers/file_summarization.py), *)
(* the generation and summarization endpoints (app/routers/mcq.py,         *)
(* app/routers/summarization.py), the startup of the application           *)
(* (app/main.py) and the model manager (app/services/model_manager.py).    *)
(*                                                                         *)
(* Python floats are modelled as exact rationals [n, d] in lowest terms;   *)
(* round(x, k) is round-half-to-even of the exact value, which is what     *)
(* Python's round does on the value it is given.  A decimal tie (x.xxx5)   *)
(* is seldom a tie of the binary float, so the properties below speak of   *)
(* "a multiple of 10^-k at most half a unit away" and not of the direction *)
(* in which a tie goes.                                                    *)
(***************************************************************************)
EXTENDS Integers, Sequences, FiniteSets

VARIABLES
    questions,  \* the questions table (models.py, Question)
    request,    \* the parameters of the call in progress (routes/priority.py)
    response,   \* its outcome: the returned dict or the exception raised
    previous,   \* the call and outcome whose weights_used were passed back in
    handlers,   \* concurrent requests: each one's position and local variables
    sessions,   \* the database sessions open for each concurrent request
    mcq,        \* a call of MCQGenerator.generate_mcq_from_text and its result
    chunker,    \* a call of TextChunker.chunk_text: its locals and position
    http,       \* a POST request to a generation endpoint and its answer
    files,      \* a call of chunk_text of the file router and its chunks
    app,        \* the application process: imports, startup, model loads
    manager     \* the attributes of the ModelManager class and its instance

vars == <<questions, request, response, previous, handlers, sessions, mcq,
          chunker, http, files, app, manager>>

(***************************************************************************)
(* Bounds of the model.                                                    *)
(***************************************************************************)
MaxRows == 3
MaxRuns == 3
MaxChunks == 3
MaxRequestRuns == 5
MaxFileRuns == 7
MaxPieces == 7
MaxLoads == 3
MaxInstances == 2

(***************************************************************************)
(* Exact rational arithmetic standing for float arithmetic.                *)
(***************************************************************************)
Abs(i) == IF i < 0 THEN -i ELSE i

RECURSIVE GCD(_, _)
GCD(a, b) == IF b = 0 THEN a ELSE GCD(b, a % b)

Rat(n, d) ==
    LET s == IF d < 0 THEN -1 ELSE 1
        g == GCD(Abs(n), Abs(d))
    IN  [n |-> (s * n) \div g, d |-> (s * d) \div g]

FromInt(i) == [n |-> i, d |-> 1]
Zero == FromInt(0)
One == FromInt(1)

RAdd(a, b) == Rat(a.n * b.d + b.n * a.d, a.d * b.d)
RSub(a, b) == Rat(a.n * b.d - b.n * a.d, a.d * b.d)
RMul(a, b) == Rat(a.n * b.n, a.d * b.d)
RDiv(a, b) == Rat(a.n * b.d, a.d * b.n)
RAbs(a) == [n |-> Abs(a.n), d |-> a.d]
RLess(a, b) == a.n * b.d < b.n * a.d
RLeq(a, b) == a.n * b.d <= b.n * a.d

RECURSIVE Pow10(_)
Pow10(k) == IF k = 0 THEN 1 ELSE 10 * Pow10(k - 1)

\* round(x, ndigits): the nearest multiple of 10^-ndigits, ties to even.
round(x, ndigits) ==
    LET s == Pow10(ndigits)
        num == x.n * s
        q == num \div x.d
        r == num % x.d
        up == \/ 2 * r > x.d
              \/ 2 * r = x.d /\ q % 2 = 1
    IN  Rat(IF up THEN q + 1 ELSE q, s)

(***************************************************************************)
(* Input domains: the columns of a Question row and the weights a caller   *)
(* may pass.                                                               *)
(***************************************************************************)
Topics == {"Networking", "DB Normalization"}
Marks == {10, 15}
Years == {2023, 2024}
Subjects == {1, 2}

\* The columns of a row of the questions table that are not generated.
Question == [topic : Topics, marks : Marks, year : Years, subject_id : Subjects]

FrequencyWeights == {Rat(-1, 2), Zero, Rat(3, 10), Rat(3, 5), Rat(3335, 10000)}
MarksWeights == {Rat(3, 10), Rat(2, 5), Rat(1, 2), Rat(6675, 10000)}

(***************************************************************************)
(* The questions table.  Rows differ only by their generated id, which the *)
(* scorer counts and never reads, so the table is the number of rows       *)
(* holding each combination of column values.                              *)
(***************************************************************************)
RECURSIVE Sum(_, _)
Sum(f, S) ==
    IF S = {} THEN 0
    ELSE LET x == CHOOSE y \in S : TRUE
         IN  f[x] + Sum(f, S \ {x})

EmptyTable == [q \in Question |-> 0]
RowCount(rows) == Sum(rows, DOMAIN rows)

(***************************************************************************)
(* The aggregation query of calculate_priority_scores:                     *)
(*   SELECT topic, count(id), avg(marks) FROM questions                    *)
(*   WHERE subject_id = :subject_id GROUP BY topic                         *)
(* The order of the groups is the database's choice (group_order).         *)
(***************************************************************************)
\* Faulty variant of Filter: the subject condition is dropped.
FilterAllSubjects(rows, subject_id) ==
    {q \in DOMAIN rows : rows[q] > 0}

Filter(rows, subject_id) ==
    {q \in DOMAIN rows : rows[q] > 0 /\ q.subject_id = subject_id}

GroupBy(matching, topic) == {q \in matching : q.topic = topic}

GroupTopics(rows, subject_id) == {q.topic : q \in Filter(rows, subject_id)}

\* Faulty variant of GroupOrders: the query groups by more than the topic,
\* so that a topic may come back in more than one group.
GroupOrdersFiner(rows, subject_id) ==
    LET T == GroupTopics(rows, subject_id)
    IN  [1 .. Cardinality(Filter(rows, subject_id)) -> T]

GroupOrders(rows, subject_id) ==
    LET T == GroupTopics(rows, subject_id)
    IN  {o \in [1 .. Cardinality(T) -> T] :
            \A i, j \in DOMAIN o : i # j => o[i] # o[j]}

\* Faulty variant of count: counts the distinct column combinations.
count_distinct(rows, group) == Cardinality(group)

count(rows, group) == Sum(rows, group)

\* Faulty variant of avg: a true per-year average, the marks of the group
\* divided by the number of years it spans.
avg_per_year(rows, group) ==
    Rat(Sum([q \in group |-> q.marks * rows[q]], group),
        Cardinality({q.year : q \in group}))

avg(rows, group) ==
    Rat(Sum([q \in group |-> q.marks * rows[q]], group), Sum(rows, group))

Query(db, subject_id) ==
    [k \in DOMAIN db.group_order |->
        LET group == GroupBy(Filter(db.rows, subject_id), db.group_order[k])
        IN  [topic |-> db.group_order[k],
             frequency |-> count(db.rows, group),
             avg_marks |-> avg(db.rows, group)]]

(***************************************************************************)
(* list.sort(key = priority_score, reverse = True): a stable sort, so      *)
(* entries with equal keys keep their relative order.                      *)
(***************************************************************************)
\* Faulty variant of InsertDesc: an entry goes in front of the entries with
\* the same key, which is what an unstable sort may do.
RECURSIVE InsertDescUnstable(_, _)
InsertDescUnstable(sorted, e) ==
    IF sorted = <<>> THEN <<e>>
    ELSE IF RLeq(Head(sorted).priority_score, e.priority_score)
         THEN <<e>> \o sorted
         ELSE <<Head(sorted)>> \o InsertDescUnstable(Tail(sorted), e)

RECURSIVE InsertDesc(_, _)
InsertDesc(sorted, e) ==
    IF sorted = <<>> THEN <<e>>
    ELSE IF RLess(Head(sorted).priority_score, e.priority_score)
         THEN <<e>> \o sorted
         ELSE <<Head(sorted)>> \o InsertDesc(Tail(sorted), e)

\* Faulty variant of SortDesc: the list is left in the order of the query.
Unsorted(list) == list

RECURSIVE SortDesc(_)
SortDesc(list) ==
    IF list = <<>> THEN <<>>
    ELSE InsertDesc(SortDesc(SubSeq(list, 1, Len(list) - 1)), list[Len(list)])

(***************************************************************************)
(* calculate_priority_scores(db, subject_id, frequency_weight,             *)
(* marks_weight).  The outcome is either the returned dict or the          *)
(* exception that leaves the function.                                     *)
(***************************************************************************)
Tolerance == Rat(1, 1000)

Returns(body) == [kind |-> "return", body |-> body]
Raises(exception) == [kind |-> "raise", exception |-> exception]

\* Faulty variant of NeedsNormalization: the sum is compared with 1.0 exactly.
NeedsNormalizationExact(frequency_weight, marks_weight) ==
    RAdd(frequency_weight, marks_weight) # One

NeedsNormalization(frequency_weight, marks_weight) ==
    RLess(Tolerance, RAbs(RSub(RAdd(frequency_weight, marks_weight), One)))

\* Faulty variant of NormalizedWeights: marks_weight is divided by the sum of
\* the already rescaled frequency_weight and marks_weight.
NormalizedWeightsInPlace(frequency_weight, marks_weight) ==
    LET total_weight == RAdd(frequency_weight, marks_weight)
    IN  IF NeedsNormalization(frequency_weight, marks_weight)
        THEN LET rescaled == RDiv(frequency_weight, total_weight)
             IN  [frequency_weight |-> rescaled,
                  marks_weight |-> RDiv(marks_weight, RAdd(rescaled, marks_weight))]
        ELSE [frequency_weight |-> frequency_weight,
              marks_weight |-> marks_weight]

NormalizedWeights(frequency_weight, marks_weight) ==
    LET total_weight == RAdd(frequency_weight, marks_weight)
    IN  IF NeedsNormalization(frequency_weight, marks_weight)
        THEN [frequency_weight |-> RDiv(frequency_weight, total_weight),
              marks_weight |-> RDiv(marks_weight, total_weight)]
        ELSE [frequency_weight |-> frequency_weight,
              marks_weight |-> marks_weight]

Warning(frequency_weight, marks_weight) ==
    LET w == NormalizedWeights(frequency_weight, marks_weight)
    IN  [from |-> <<frequency_weight, marks_weight>>,
         to |-> <<round(w.frequency_weight, 3), round(w.marks_weight, 3)>>]

WeightsUsed(w) ==
    [frequency_weight |-> round(w.frequency_weight, 3),
     marks_weight |-> round(w.marks_weight, 3)]

\* Faulty variant of TopicScore: the score is computed from the rounded
\* avg_marks_per_year.
TopicScoreFromRounded(result, w) ==
    LET avg_marks_per_year == round(result.avg_marks, 2)
        priority_score ==
            RAdd(RMul(FromInt(result.frequency), w.frequency_weight),
                 RMul(avg_marks_per_year, w.marks_weight))
    IN  [topic |-> result.topic,
         frequency |-> result.frequency,
         avg_marks_per_year |-> avg_marks_per_year,
         priority_score |-> round(priority_score, 3)]

TopicScore(result, w) ==
    LET priority_score ==
            RAdd(RMul(FromInt(result.frequency), w.frequency_weight),
                 RMul(result.avg_marks, w.marks_weight))
    IN  [topic |-> result.topic,
         frequency |-> result.frequency,
         avg_marks_per_year |-> round(result.avg_marks, 2),
         priority_score |-> round(priority_score, 3)]

\* Faulty variant of EmptyResponse: the message is left out.
EmptyResponseNoMessage(subject_id, w) ==
    [topics |-> <<>>,
     weights_used |-> WeightsUsed(w)]

EmptyResponse(subject_id, w) ==
    [topics |-> <<>>,
     weights_used |-> WeightsUsed(w),
     message |-> [subject_id |-> subject_id]]

RankedTopics(results, w) ==
    SortDesc([k \in DOMAIN results |-> TopicScore(results[k], w)])

RankedResponse(results, w) ==
    [topics |-> RankedTopics(results, w),
     weights_used |-> WeightsUsed(w)]

WarnedResponse(results, w, warning) ==
    [topics |-> RankedTopics(results, w),
     weights_used |-> WeightsUsed(w),
     warning |-> warning]

\* Faulty variant of calculate_priority_scores: a failed query is caught and
\* answered as if the subject had no questions.
calculate_priority_scores_swallowing(db, subject_id, frequency_weight, marks_weight) ==
    LET total_weight == RAdd(frequency_weight, marks_weight)
        normalize == NeedsNormalization(frequency_weight, marks_weight)
        w == NormalizedWeights(frequency_weight, marks_weight)
        results == Query(db, subject_id)
    IN  IF normalize /\ total_weight = Zero
        THEN Raises("ZeroDivisionError")
        ELSE IF ~db.available \/ results = <<>>
        THEN Returns(EmptyResponse(subject_id, w))
        ELSE IF normalize
        THEN Returns(WarnedResponse(results, w,
                                    Warning(frequency_weight, marks_weight)))
        ELSE Returns(RankedResponse(results, w))

calculate_priority_scores(db, subject_id, frequency_weight, marks_weight) ==
    LET total_weight == RAdd(frequency_weight, marks_weight)
        normalize == NeedsNormalization(frequency_weight, marks_weight)
        w == NormalizedWeights(frequency_weight, marks_weight)
        results == Query(db, subject_id)
    IN  IF normalize /\ total_weight = Zero
        THEN Raises("ZeroDivisionError")
        ELSE IF ~db.available
        THEN Raises("StorageError")
        ELSE IF results = <<>>
        THEN Returns(EmptyResponse(subject_id, w))
        ELSE IF normalize
        THEN Returns(WarnedResponse(results, w,
                                    Warning(frequency_weight, marks_weight)))
        ELSE Returns(RankedResponse(results, w))

(***************************************************************************)
(* The state machine: a seeding script that inserts rows, and a caller     *)
(* that scores a subject, may pass the reported weights back in, and then  *)
(* takes the outcome.                                                      *)
(***************************************************************************)
NoRequest == [kind |-> "none"]
NoResponse == [kind |-> "none"]
NoPrevious == [kind |-> "none"]
NoMcq == [kind |-> "none"]

NumClients == 2
Clients == 1 .. NumClients
IdleHandler == [pc |-> "idle"]
NoHandlers == [c \in Clients |-> IdleHandler]
NoSessions == [c \in Clients |-> 0]

NoCall == [kind |-> "none"]

\* The services outside the scorer, none of them in use.
Services == <<chunker, http, files, app, manager>>
ServicesIdle ==
    /\ chunker = NoCall
    /\ http = NoCall
    /\ files = NoCall
    /\ app = NoCall
    /\ manager = NoCall

\* What the sequential caller leaves alone.
Elsewhere == UNCHANGED <<handlers, sessions, mcq, Services>>

Init ==
    /\ questions = EmptyTable
    /\ request = NoRequest
    /\ response = NoResponse
    /\ previous = NoPrevious
    /\ handlers = NoHandlers
    /\ sessions = NoSessions
    /\ mcq = NoMcq
    /\ ServicesIdle

\* seed_data: session.add(Question(...)) for one row, then commit.
AddQuestion(q) ==
    /\ request = NoRequest
    /\ RowCount(questions) < MaxRows
    /\ questions' = [questions EXCEPT ![q] = @ + 1]
    /\ UNCHANGED <<request, response, previous>>
    /\ Elsewhere

\* A query parameter declared Query(default): the default when it is omitted.
Omitted == [omitted |-> TRUE]
DefaultFrequencyWeight == Rat(3, 5)

\* Faulty variant of DefaultMarksWeight: the default of frequency_weight.
DefaultMarksWeightCopied == Rat(3, 5)

DefaultMarksWeight == Rat(2, 5)
QueryParameter(value, default) == IF value = Omitted THEN default ELSE value

\* Faulty variant of Call: the call also deletes the rows it has read.
CallConsuming(query, subject_id, frequency_weight, marks_weight, group_order, available) ==
    /\ request' = [kind |-> "call",
                   query |-> query,
                   subject_id |-> subject_id,
                   frequency_weight |-> frequency_weight,
                   marks_weight |-> marks_weight,
                   group_order |-> group_order,
                   available |-> available]
    /\ response' = calculate_priority_scores(
                       [rows |-> questions, group_order |-> group_order,
                        available |-> available],
                       subject_id, frequency_weight, marks_weight)
    /\ questions' = [q \in DOMAIN questions |->
                        IF available /\ q.subject_id = subject_id THEN 0
                        ELSE questions[q]]

\* result = calculate_priority_scores(db, subject_id, frequency_weight,
\* marks_weight), with the parameters as passed (query) and as resolved.
Call(query, subject_id, frequency_weight, marks_weight, group_order, available) ==
    /\ request' = [kind |-> "call",
                   query |-> query,
                   subject_id |-> subject_id,
                   frequency_weight |-> frequency_weight,
                   marks_weight |-> marks_weight,
                   group_order |-> group_order,
                   available |-> available]
    /\ response' = calculate_priority_scores(
                       [rows |-> questions, group_order |-> group_order,
                        available |-> available],
                       subject_id, frequency_weight, marks_weight)
    /\ UNCHANGED questions

\* GET /priority-topics/{subject_id}?frequency_weight=..&marks_weight=..
get_priority_topics(subject_id, frequency_weight, marks_weight) ==
    /\ request = NoRequest
    /\ \E group_order \in GroupOrders(questions, subject_id), available \in BOOLEAN :
          Call([frequency_weight |-> frequency_weight, marks_weight |-> marks_weight],
               subject_id,
               QueryParameter(frequency_weight, DefaultFrequencyWeight),
               QueryParameter(marks_weight, DefaultMarksWeight),
               group_order, available)
    /\ previous' = NoPrevious
    /\ Elsewhere

\* The caller passes the weights_used of the response back in, once, for the
\* same subject; the table is unchanged and the query answers in the same
\* group order.
Resubmit ==
    /\ request # NoRequest
    /\ previous = NoPrevious
    /\ response.kind = "return"
    /\ \E available \in BOOLEAN :
          Call(response.body.weights_used, request.subject_id,
               response.body.weights_used.frequency_weight,
               response.body.weights_used.marks_weight,
               request.group_order, available)
    /\ previous' = [kind |-> "call", request |-> request, response |-> response]
    /\ Elsewhere

\* The caller has the outcome; the request is over.
Finish ==
    /\ request # NoRequest
    /\ request' = NoRequest
    /\ response' = NoResponse
    /\ previous' = NoPrevious
    /\ UNCHANGED questions
    /\ Elsewhere

Next ==
    \/ \E q \in Question : AddQuestion(q)
    \/ \E subject_id \in Subjects, frequency_weight \in FrequencyWeights,
          marks_weight \in MarksWeights :
          get_priority_topics(subject_id, frequency_weight, marks_weight)
    \/ Resubmit
    \/ Finish

Spec == Init /\ [][Next]_vars

(***************************************************************************)
(* The endpoint over the seeded table: rows of the list of seed_data,      *)
(* inserted one at a time so that every part of the list is a table, and   *)
(* requests whose weight parameters may be omitted.                        *)
(***************************************************************************)
SeedRows ==
    {[topic |-> "Networking", marks |-> 10, year |-> 2024, subject_id |-> 1],
     [topic |-> "Networking", marks |-> 15, year |-> 2023, subject_id |-> 1],
     [topic |-> "DB Normalization", marks |-> 12, year |-> 2024, subject_id |-> 1],
     [topic |-> "DB Normalization", marks |-> 8, year |-> 2022, subject_id |-> 1],
     [topic |-> "Algorithms", marks |-> 5, year |-> 2024, subject_id |-> 1],
     [topic |-> "Calculus", marks |-> 25, year |-> 2024, subject_id |-> 2]}

EndpointFrequencyWeights == {Omitted, Rat(3, 10), One}
EndpointMarksWeights == {Omitted, Rat(3, 10), Rat(1, 10000)}

EndpointInit ==
    /\ questions = [q \in SeedRows |-> 0]
    /\ request = NoRequest
    /\ response = NoResponse
    /\ previous = NoPrevious
    /\ handlers = NoHandlers
    /\ sessions = NoSessions
    /\ mcq = NoMcq
    /\ ServicesIdle

\* seed_data: session.add(question) for one row of the list.
seed_data(q) ==
    /\ request = NoRequest
    /\ questions[q] = 0
    /\ questions' = [questions EXCEPT ![q] = 1]
    /\ UNCHANGED <<request, response, previous>>
    /\ Elsewhere

EndpointNext ==
    \/ \E q \in SeedRows : seed_data(q)
    \/ \E subject_id \in Subjects, frequency_weight \in EndpointFrequencyWeights,
          marks_weight \in EndpointMarksWeights :
          get_priority_topics(subject_id, frequency_weight, marks_weight)
    \/ Finish

EndpointSpec == EndpointInit /\ [][EndpointNext]_vars

(***************************************************************************)
(* The endpoint over rows whose topics differ in nothing but the case of a *)
(* letter: group_by(Question.topic) compares the strings as they are.      *)
(***************************************************************************)
\* Weights that are used as given, that are rescaled, and that sum to zero.
ConcurrentWeights ==
    {<<Rat(3, 5), Rat(2, 5)>>, <<Rat(3, 10), Rat(3, 10)>>, <<Rat(-1, 2), Rat(1, 2)>>}

CaseTopics == {"Networking", "networking", "DB Normalization"}
CaseRows == [topic : CaseTopics, marks : Marks, year : {2024}, subject_id : Subjects]

GroupingInit ==
    /\ questions = [q \in CaseRows |-> 0]
    /\ request = NoRequest
    /\ response = NoResponse
    /\ previous = NoPrevious
    /\ handlers = NoHandlers
    /\ sessions = NoSessions
    /\ mcq = NoMcq
    /\ ServicesIdle

GroupingNext ==
    \/ \E q \in CaseRows : AddQuestion(q)
    \/ \E subject_id \in Subjects, weights \in ConcurrentWeights :
          get_priority_topics(subject_id, weights[1], weights[2])
    \/ Finish

GroupingSpec == GroupingInit /\ [][GroupingNext]_vars

(***************************************************************************)
(* Requests in flight together.  Each client sends one request; its        *)
(* handler takes the steps of get_priority_topics one at a time, so that   *)
(* the steps of different handlers interleave in every way:                *)
(*   the session dependency yields a session (try: db = ...; yield db),    *)
(*   the scorer normalizes the weights, runs the query, scores and sorts   *)
(*   and returns, or raises on the way,                                    *)
(*   the session dependency closes the session (finally: db.close()).      *)
(* sessions[c] counts the sessions open for client c.                      *)
(***************************************************************************)
ConcurrentRows ==
    {[topic |-> "Networking", marks |-> 10, year |-> 2024, subject_id |-> 1],
     [topic |-> "DB Normalization", marks |-> 12, year |-> 2024, subject_id |-> 1],
     [topic |-> "Calculus", marks |-> 25, year |-> 2024, subject_id |-> 2]}

ConcurrentInit ==
    /\ questions \in [ConcurrentRows -> {0, 1}]
    /\ request = NoRequest
    /\ response = NoResponse
    /\ previous = NoPrevious
    /\ handlers = NoHandlers
    /\ sessions = NoSessions
    /\ mcq = NoMcq
    /\ ServicesIdle

Sequential == UNCHANGED <<request, response, previous, mcq, Services>>

\* try: db = SessionLocal(); yield db -- the request gets its session.
get_db_yield(c, subject_id, frequency_weight, marks_weight) ==
    /\ handlers[c].pc = "idle"
    /\ handlers' = [handlers EXCEPT ![c] =
                        [pc |-> "opened",
                         subject_id |-> subject_id,
                         frequency_weight |-> frequency_weight,
                         marks_weight |-> marks_weight]]
    /\ sessions' = [sessions EXCEPT ![c] = @ + 1]
    /\ UNCHANGED questions
    /\ Sequential

\* Lines 15-23 of the scorer: total_weight and the rescaled weights are
\* locals of the call.
normalize_weights(c) ==
    LET h == handlers[c]
    IN  /\ h.pc = "opened"
        /\ handlers' = [handlers EXCEPT ![c] =
               IF /\ NeedsNormalization(h.frequency_weight, h.marks_weight)
                  /\ RAdd(h.frequency_weight, h.marks_weight) = Zero
               THEN [pc |-> "raised",
                     subject_id |-> h.subject_id,
                     frequency_weight |-> h.frequency_weight,
                     marks_weight |-> h.marks_weight,
                     group_order |-> <<>>,
                     available |-> TRUE,
                     response |-> Raises("ZeroDivisionError")]
               ELSE [pc |-> "normalized",
                     subject_id |-> h.subject_id,
                     frequency_weight |-> h.frequency_weight,
                     marks_weight |-> h.marks_weight,
                     w |-> NormalizedWeights(h.frequency_weight, h.marks_weight)]]
        /\ UNCHANGED <<questions, sessions>>
        /\ Sequential

\* The handlers whose query results are still around.
HasResults(d) == handlers[d].pc \in {"queried", "returned"}

\* Faulty variant of query_all: the results of another request for the same
\* subject are used again when there are any.
query_all_cached(c, group_order, available) ==
    LET h == handlers[c]
        cached == {d \in Clients : /\ d # c
                                   /\ HasResults(d)
                                   /\ handlers[d].subject_id = h.subject_id}
    IN  /\ h.pc = "normalized"
        /\ handlers' = [handlers EXCEPT ![c] =
               IF ~available
               THEN [pc |-> "raised",
                     subject_id |-> h.subject_id,
                     frequency_weight |-> h.frequency_weight,
                     marks_weight |-> h.marks_weight,
                     group_order |-> group_order,
                     available |-> FALSE,
                     response |-> Raises("StorageError")]
               ELSE [pc |-> "queried",
                     subject_id |-> h.subject_id,
                     frequency_weight |-> h.frequency_weight,
                     marks_weight |-> h.marks_weight,
                     w |-> h.w,
                     group_order |-> group_order,
                     available |-> TRUE,
                     results |->
                         IF cached # {}
                         THEN handlers[CHOOSE d \in cached : TRUE].results
                         ELSE Query([rows |-> questions,
                                     group_order |-> group_order,
                                     available |-> TRUE], h.subject_id)]]
        /\ UNCHANGED <<questions, sessions>>
        /\ Sequential

\* db.query(...).filter(...).group_by(...).all(), lines 26-34: reads the
\* table as it is now, or fails.
query_all(c, group_order, available) ==
    LET h == handlers[c]
    IN  /\ h.pc = "normalized"
        /\ handlers' = [handlers EXCEPT ![c] =
               IF ~available
               THEN [pc |-> "raised",
                     subject_id |-> h.subject_id,
                     frequency_weight |-> h.frequency_weight,
                     marks_weight |-> h.marks_weight,
                     group_order |-> group_order,
                     available |-> FALSE,
                     response |-> Raises("StorageError")]
               ELSE [pc |-> "queried",
                     subject_id |-> h.subject_id,
                     frequency_weight |-> h.frequency_weight,
                     marks_weight |-> h.marks_weight,
                     w |-> h.w,
                     group_order |-> group_order,
                     available |-> TRUE,
                     results |-> Query([rows |-> questions,
                                        group_order |-> group_order,
                                        available |-> TRUE], h.subject_id)]]
        /\ UNCHANGED <<questions, sessions>>
        /\ Sequential

\* The response of lines 37-77 from the locals of one call.
Scored(subject_id, frequency_weight, marks_weight, w, results) ==
    IF results = <<>>
    THEN Returns(EmptyResponse(subject_id, w))
    ELSE IF NeedsNormalization(frequency_weight, marks_weight)
    THEN Returns(WarnedResponse(results, w,
                                Warning(frequency_weight, marks_weight)))
    ELSE Returns(RankedResponse(results, w))

\* Faulty variant of score_and_return: normalized weights kept in a
\* module-level variable, so a call scores with the weights of the call
\* that normalized last (here: of the highest client that has normalized).
score_and_return_shared(c) ==
    LET h == handlers[c]
        writers == {d \in Clients : handlers[d].pc \in {"normalized", "queried"}}
        last == CHOOSE d \in writers : \A o \in writers : o <= d
    IN  /\ h.pc = "queried"
        /\ handlers' = [handlers EXCEPT ![c] =
               [pc |-> "returned",
                subject_id |-> h.subject_id,
                frequency_weight |-> h.frequency_weight,
                marks_weight |-> h.marks_weight,
                group_order |-> h.group_order,
                available |-> h.available,
                results |-> h.results,
                response |-> Scored(h.subject_id, h.frequency_weight,
                                    h.marks_weight, handlers[last].w, h.results)]]
        /\ UNCHANGED <<questions, sessions>>
        /\ Sequential

\* Lines 37-77: the empty answer, or the scored, sorted and returned list.
score_and_return(c) ==
    LET h == handlers[c]
    IN  /\ h.pc = "queried"
        /\ handlers' = [handlers EXCEPT ![c] =
               [pc |-> "returned",
                subject_id |-> h.subject_id,
                frequency_weight |-> h.frequency_weight,
                marks_weight |-> h.marks_weight,
                group_order |-> h.group_order,
                available |-> h.available,
                results |-> h.results,
                response |-> Scored(h.subject_id, h.frequency_weight,
                                    h.marks_weight, h.w, h.results)]]
        /\ UNCHANGED <<questions, sessions>>
        /\ Sequential

\* Faulty variant of get_db_close: db.close() follows the yield without a
\* finally, so it is skipped when the request raised.
get_db_close_no_finally(c) ==
    LET h == handlers[c]
    IN  /\ h.pc \in {"returned", "raised"}
        /\ handlers' = [handlers EXCEPT ![c] =
               [pc |-> "finished",
                subject_id |-> h.subject_id,
                frequency_weight |-> h.frequency_weight,
                marks_weight |-> h.marks_weight,
                group_order |-> h.group_order,
                available |-> h.available,
                response |-> h.response]]
        /\ sessions' = [sessions EXCEPT ![c] =
                            IF h.pc = "returned" THEN @ - 1 ELSE @]
        /\ UNCHANGED questions
        /\ Sequential

\* finally: db.close() -- runs when the request has returned or raised.
get_db_close(c) ==
    LET h == handlers[c]
    IN  /\ h.pc \in {"returned", "raised"}
        /\ handlers' = [handlers EXCEPT ![c] =
               [pc |-> "finished",
                subject_id |-> h.subject_id,
                frequency_weight |-> h.frequency_weight,
                marks_weight |-> h.marks_weight,
                group_order |-> h.group_order,
                available |-> h.available,
                response |-> h.response]]
        /\ sessions' = [sessions EXCEPT ![c] = @ - 1]
        /\ UNCHANGED questions
        /\ Sequential

ConcurrentNext ==
    \E c \in Clients :
        \/ \E subject_id \in Subjects, weights \in ConcurrentWeights :
              get_db_yield(c, subject_id, weights[1], weights[2])
        \/ normalize_weights(c)
        \/ /\ handlers[c].pc = "normalized"
           /\ \E group_order \in GroupOrders(questions, handlers[c].subject_id),
                 available \in BOOLEAN :
                 query_all(c, group_order, available)
        \/ score_and_return(c)
        \/ get_db_close(c)

ConcurrentSpec == ConcurrentInit /\ [][ConcurrentNext]_vars

(***************************************************************************)
(* The same requests while the seeding script inserts rows.                *)
(***************************************************************************)
FreshInit ==
    /\ questions = [q \in ConcurrentRows |-> 0]
    /\ request = NoRequest
    /\ response = NoResponse
    /\ previous = NoPrevious
    /\ handlers = NoHandlers
    /\ sessions = NoSessions
    /\ mcq = NoMcq
    /\ ServicesIdle

FreshNext ==
    \/ \E q \in ConcurrentRows : seed_data(q)
    \/ ConcurrentNext

FreshSpec == FreshInit /\ [][FreshNext]_vars

(***************************************************************************)
(* MCQGenerator.generate_mcq_from_text(text, num_questions)                *)
(* (app/services/mcq.py).  A text is a sequence of characters; the texts   *)
(* tried are built from runs of one character each.                        *)
(***************************************************************************)
Terminators == {".", "!", "?"}
Whitespace == {" "}

\* Runs of letters up to and over the length a sentence needs, and single
\* terminators and blanks; longer stretches of those are runs in a row.
Letters == {"a"}
LetterRunLengths == {1, 20, 21}
Runs ==
    [char : Letters, length : LetterRunLengths]
        \cup [char : {".", "?", " "}, length : {1}]
Texts == UNION {[1 .. n -> Runs] : n \in 0 .. MaxRuns}
NumQuestions == {-1, 0, 1, 2, 5}

RECURSIVE Expand(_)
Expand(runs) ==
    IF runs = <<>> THEN <<>>
    ELSE [k \in 1 .. Head(runs).length |-> Head(runs).char] \o Expand(Tail(runs))

\* re.split(r'[.!?]+', text): the pieces between the maximal runs of
\* terminators, the empty pieces at either end included.  first is where the
\* first run of terminators starts and last where it ends.
RECURSIVE re_split(_)
re_split(text) ==
    IF \A k \in DOMAIN text : text[k] \notin Terminators THEN <<text>>
    ELSE LET first == CHOOSE k \in DOMAIN text :
                          /\ text[k] \in Terminators
                          /\ \A j \in 1 .. k - 1 : text[j] \notin Terminators
             last == CHOOSE m \in first .. Len(text) :
                         /\ \A j \in first .. m : text[j] \in Terminators
                         /\ m = Len(text) \/ text[m + 1] \notin Terminators
         IN  <<SubSeq(text, 1, first - 1)>>
                 \o re_split(SubSeq(text, last + 1, Len(text)))

\* str.strip(): without the whitespace at either end.
strip(s) ==
    LET kept == {k \in DOMAIN s : s[k] \notin Whitespace}
    IN  IF kept = {} THEN <<>>
        ELSE SubSeq(s, CHOOSE k \in kept : \A o \in kept : k <= o,
                       CHOOSE k \in kept : \A o \in kept : o <= k)

MinSentenceLength == 20
StatementLength == 100

\* Faulty variant of LongEnough: a sentence of exactly 20 characters passes.
LongEnoughInclusive(s) == Len(strip(s)) >= MinSentenceLength

LongEnough(s) == Len(strip(s)) > MinSentenceLength

\* [s.strip() for s in sentences if len(s.strip()) > 20]
RECURSIVE StrippedSentences(_)
StrippedSentences(pieces) ==
    IF pieces = <<>> THEN <<>>
    ELSE (IF LongEnough(Head(pieces)) THEN <<strip(Head(pieces))>> ELSE <<>>)
             \o StrippedSentences(Tail(pieces))

min(a, b) == IF a <= b THEN a ELSE b

\* sentence[:100]
Slice(s, n) == SubSeq(s, 1, min(n, Len(s)))

correct_answer == "The statement provides information about the topic."
incorrect_options ==
    <<"The statement is completely false.",
      "The statement has no meaning.",
      "The statement is irrelevant.">>

\* random.shuffle(all_options) leaves any of the orders of the four options.
Shuffles ==
    LET all_options == <<correct_answer>> \o incorrect_options
    IN  {[k \in DOMAIN all_options |-> all_options[p[k]]] :
            p \in {f \in [DOMAIN all_options -> DOMAIN all_options] :
                      \A i, j \in DOMAIN all_options : i # j => f[i] # f[j]}}

\* Faulty variant of index: the place is counted from 1.
index_from_one(list, x) ==
    CHOOSE k \in DOMAIN list :
        list[k] = x /\ \A o \in DOMAIN list : list[o] = x => k <= o

\* list.index(x): the first place of x, counted from 0.
index(list, x) ==
    (CHOOSE k \in DOMAIN list :
        list[k] = x /\ \A o \in DOMAIN list : list[o] = x => k <= o) - 1

\* shuffled[i] is what the shuffle of the i-th round leaves.
generate_mcq_from_text(text, num_questions, shuffled) ==
    LET sentences == StrippedSentences(re_split(text))
        limit == min(num_questions, Len(sentences))
    IN  [i \in 1 .. limit |->
            [id |-> i,
             question |-> [statement |-> Slice(sentences[i], StatementLength)],
             options |-> shuffled[i],
             correct_answer_index |-> index(shuffled[i], correct_answer),
             correct_answer |-> correct_answer,
             explanation |-> [statement |-> Slice(sentences[i], StatementLength)]]]

\* The number of rounds of a call, one shuffle each.
Rounds(text, num_questions) ==
    min(num_questions, Len(StrippedSentences(re_split(text))))

McqInit ==
    /\ mcq \in [kind : {"input"}, text : Texts, num_questions : NumQuestions]
    /\ questions = EmptyTable
    /\ request = NoRequest
    /\ response = NoResponse
    /\ previous = NoPrevious
    /\ handlers = NoHandlers
    /\ sessions = NoSessions
    /\ ServicesIdle

CallGenerate ==
    /\ mcq.kind = "input"
    /\ \E shuffled \in [1 .. Rounds(Expand(mcq.text), mcq.num_questions) -> Shuffles] :
          mcq' = [kind |-> "result",
                  text |-> mcq.text,
                  num_questions |-> mcq.num_questions,
                  questions |-> generate_mcq_from_text(Expand(mcq.text),
                                                       mcq.num_questions,
                                                       shuffled)]
    /\ UNCHANGED <<questions, request, response, previous, handlers, sessions,
                   Services>>

McqNext == CallGenerate

McqSpec == McqInit /\ [][McqNext]_vars

(***************************************************************************)
(* TextChunker.chunk_text(text, chunk_size, overlap)                       *)
(* (app/services/flashcard_service.py), one statement at a time.  Nothing  *)
(* in it looks inside a word, so a text is the number of its words and a   *)
(* chunk ' '.join(words[start:end]) is the pair <<start, end>>.  The list  *)
(* of chunks may grow without end; the model keeps its last MaxChunks      *)
(* entries.                                                                *)
(***************************************************************************)
WordCounts == {0, 1, 20, 21, 60, 100, 101, 300, 301, 800, 801, 1000}
ChunkParameters == {<<400, 50>>, <<400, 0>>}

max(a, b) == IF a >= b THEN a ELSE b

\* Lines 32-46: the chunk size and the overlap chosen from the word count.
DynamicChunking(word_count, chunk_size, overlap) ==
    IF word_count <= 100
    THEN LET size == max(20, word_count \div 3)
         IN  <<size, max(5, size \div 3)>>
    ELSE IF word_count <= 300
    THEN LET size == max(50, word_count \div 2)
         IN  <<size, max(10, size \div 4)>>
    ELSE IF word_count <= 800
    THEN LET size == max(100, word_count \div 3)
         IN  <<size, max(20, size \div 5)>>
    ELSE <<chunk_size, overlap>>

ChunkerInit ==
    /\ questions = EmptyTable
    /\ request = NoRequest
    /\ response = NoResponse
    /\ previous = NoPrevious
    /\ handlers = NoHandlers
    /\ sessions = NoSessions
    /\ mcq = NoMcq
    /\ ServicesIdle

ChunkerOnly ==
    UNCHANGED <<questions, request, response, previous, handlers, sessions, mcq,
                http, files, app, manager>>

\* The call: lines 27-48.
chunk_text_begin(word_count, chunk_size, overlap) ==
    /\ chunker = NoCall
    /\ LET chosen == DynamicChunking(word_count, chunk_size, overlap)
       IN  chunker' = [kind |-> "call",
                       pc |-> "check",
                       word_count |-> word_count,
                       chunk_size |-> chosen[1],
                       overlap |-> chosen[2],
                       start |-> 0,
                       end |-> 0,
                       chunks |-> <<>>]
    /\ ChunkerOnly

\* Lines 50-54: a text that fits one chunk is returned whole.
chunk_text_check ==
    /\ chunker # NoCall
    /\ chunker.pc = "check"
    /\ chunker' = IF chunker.word_count <= chunker.chunk_size
                  THEN [chunker EXCEPT !.pc = "returned",
                                       !.chunks = <<<<0, chunker.word_count>>>>]
                  ELSE [chunker EXCEPT !.pc = "while"]
    /\ ChunkerOnly

\* Line 56: while start < len(words).
chunk_text_while ==
    /\ chunker # NoCall
    /\ chunker.pc = "while"
    /\ chunker' = IF chunker.start < chunker.word_count
                  THEN [chunker EXCEPT !.pc = "append"]
                  ELSE [chunker EXCEPT !.pc = "returned"]
    /\ ChunkerOnly

Latest(chunks, chunk) ==
    IF Len(chunks) < MaxChunks
    THEN Append(chunks, chunk)
    ELSE Append(Tail(chunks), chunk)

\* Lines 57-59: end, chunk, chunks.append(chunk).
chunk_text_append ==
    /\ chunker # NoCall
    /\ chunker.pc = "append"
    /\ LET end == min(chunker.start + chunker.chunk_size, chunker.word_count)
       IN  chunker' = [chunker EXCEPT !.pc = "advance",
                                      !.end = end,
                                      !.chunks = Latest(@, <<chunker.start, end>>)]
    /\ ChunkerOnly

\* Lines 61-64: start = end - overlap; break when start >= len(words).
chunk_text_advance ==
    /\ chunker # NoCall
    /\ chunker.pc = "advance"
    /\ LET start == chunker.end - chunker.overlap
       IN  chunker' = IF start >= chunker.word_count
                      THEN [chunker EXCEPT !.pc = "returned", !.start = start]
                      ELSE [chunker EXCEPT !.pc = "while", !.start = start]
    /\ ChunkerOnly

\* The statements of a call that is running.
chunk_text_step ==
    \/ chunk_text_check
    \/ chunk_text_while
    \/ chunk_text_append
    \/ chunk_text_advance

ChunkerNext ==
    \/ \E word_count \in WordCounts, parameters \in ChunkParameters :
          chunk_text_begin(word_count, parameters[1], parameters[2])
    \/ chunk_text_step

\* A call that is running takes its next statement.
ChunkerSpec == ChunkerInit /\ [][ChunkerNext]_vars /\ WF_vars(chunk_text_step)

(***************************************************************************)
(* POST /api/v1/mcq/generate (app/routers/mcq.py): generate_mcq and        *)
(* generate_simple_mcqs.  An HTTPException raised inside the try block is  *)
(* an Exception like any other to the except clause that closes it.        *)
(***************************************************************************)
RequestRuns ==
    [char : Letters, length : {15, 16}] \cup [char : {".", " "}, length : {1}]
RequestTexts == UNION {[1 .. n -> RequestRuns] : n \in 0 .. MaxRequestRuns}
RequestedQuestions == {0, 1, 5}

HTTPException(status_code, detail) ==
    [class |-> "HTTPException", status_code |-> status_code, detail |-> detail]
RuntimeError == [class |-> "RuntimeError"]

\* The classes that derive from Exception, which except Exception catches.
Exceptions == {"HTTPException", "RuntimeError"}

\* str.split(): the words between whitespace.
RECURSIVE split(_)
split(s) ==
    IF s = <<>> THEN <<>>
    ELSE IF Head(s) \in Whitespace THEN split(Tail(s))
    ELSE LET n == CHOOSE k \in 1 .. Len(s) :
                      /\ \A j \in 1 .. k : s[j] \notin Whitespace
                      /\ k = Len(s) \/ s[k + 1] \in Whitespace
         IN  <<SubSeq(s, 1, n)>> \o split(SubSeq(s, n + 1, Len(s)))

MinWordLength == 3
MinWords == 3
MinTextLength == 50

\* [w for w in sentence.split() if len(w) > 3]
KeyWords(sentence) ==
    SelectSeq(split(sentence), LAMBDA w : Len(w) > MinWordLength)

\* random.shuffle(options) leaves the options in any order.
Orders == {p \in [1 .. 4 -> 1 .. 4] : \A i, j \in 1 .. 4 : i # j => p[i] # p[j]}

\* Lines 38-63 for the sentences from the i-th on; shuffled[i] is the order
\* the shuffle of round i leaves.
RECURSIVE SimpleMcqs(_, _, _, _)
SimpleMcqs(sentences, limit, i, shuffled) ==
    IF i > limit THEN <<>>
    ELSE LET sentence == sentences[i]
             words == KeyWords(sentence)
             options == <<words[1],
                          words[(Len(words) \div 2) + 1],
                          words[Len(words)],
                          <<"None of the above">>>>
             order == shuffled[i]
             mixed == [k \in 1 .. 4 |-> options[order[k]]]
         IN  IF Len(words) < MinWords
             THEN SimpleMcqs(sentences, limit, i + 1, shuffled)
             ELSE <<[question |-> [statement |-> Slice(sentence, StatementLength)],
                     options |-> mixed,
                     answer |-> mixed[1]]>>
                      \o SimpleMcqs(sentences, limit, i + 1, shuffled)

generate_simple_mcqs(text, num_questions, shuffled) ==
    LET sentences == StrippedSentences(re_split(text))
    IN  SimpleMcqs(sentences, min(num_questions, Len(sentences)), 1, shuffled)

\* The body of the try block, lines 72-95: what it returns or raises.
generate_mcq_try(request_text, num_questions, shuffled, unexpected) ==
    LET text == strip(request_text)
        mcqs == generate_simple_mcqs(text, num_questions, shuffled)
    IN  IF text = <<>>
        THEN Raises(HTTPException(400, "Text cannot be empty"))
        ELSE IF Len(text) < MinTextLength
        THEN Raises(HTTPException(400, "Text must be at least 50 characters long"))
        ELSE IF unexpected
        THEN Raises(RuntimeError)
        ELSE IF mcqs = <<>>
        THEN Raises(HTTPException(400, "Could not generate MCQs from the provided text. Please try with longer text."))
        ELSE Returns([mcqs |-> mcqs,
                      total_questions |-> Len(mcqs),
                      text_length |-> Len(text),
                      processing_method |-> "simple_generation"])

\* Lines 97-99: except Exception as e: raise HTTPException(500, ...).
generate_mcq_except(outcome) ==
    IF outcome.kind = "raise" /\ outcome.exception.class \in Exceptions
    THEN Raises(HTTPException(500, [failed |-> outcome.exception]))
    ELSE outcome

\* What the client receives: the status and the body or the detail.
Answer(outcome) ==
    IF outcome.kind = "raise"
    THEN [status |-> outcome.exception.status_code,
          detail |-> outcome.exception.detail]
    ELSE [status |-> 200, body |-> outcome.body]

\* The rounds of the loop that can reach the shuffle: a sentence of three
\* words takes five runs of the text.
ShuffleRounds == 1 .. (MaxRequestRuns \div 5)

McqRouteInit ==
    /\ questions = EmptyTable
    /\ request = NoRequest
    /\ response = NoResponse
    /\ previous = NoPrevious
    /\ handlers = NoHandlers
    /\ sessions = NoSessions
    /\ mcq = NoMcq
    /\ ServicesIdle

HttpOnly ==
    UNCHANGED <<questions, request, response, previous, handlers, sessions, mcq,
                chunker, files, app, manager>>

generate_mcq(request_text, num_questions, shuffled, unexpected) ==
    /\ http = NoCall
    /\ LET text == Expand(request_text)
           reached == Len(strip(text)) >= MinTextLength
       IN  http' = [kind |-> "generate_mcq",
                    text |-> request_text,
                    num_questions |-> num_questions,
                    unexpected |-> reached /\ unexpected,
                    answer |-> Answer(generate_mcq_except(
                                   generate_mcq_try(text, num_questions,
                                                    shuffled, unexpected)))]
    /\ HttpOnly

McqRouteNext ==
    /\ http = NoCall
    /\ \E request_text \in RequestTexts, num_questions \in RequestedQuestions,
          shuffled \in [ShuffleRounds -> Orders], unexpected \in BOOLEAN :
           generate_mcq(request_text, num_questions, shuffled, unexpected)

McqRouteSpec == McqRouteInit /\ [][McqRouteNext]_vars

(***************************************************************************)
(* chunk_text(text, max_length) of app/routers/file_summarization.py.      *)
(***************************************************************************)
FileRuns ==
    [char : Letters, length : {1, 3}] \cup [char : {".", " "}, length : {1}]
FileTexts == UNION {[1 .. n -> FileRuns] : n \in 0 .. MaxFileRuns}
MaxLengths == {1, 4, 6, 12}

\* re.split(r'(?<=[.!?])\s+', text): the text is cut at every stretch of
\* whitespace that follows a terminator, and the stretch is dropped.
\* separator says that such a stretch is being dropped.
RECURSIVE split_sentences(_, _, _)
split_sentences(text, piece, separator) ==
    IF text = <<>> THEN <<piece>>
    ELSE IF Head(text) \in Whitespace
         THEN IF separator
              THEN split_sentences(Tail(text), <<>>, TRUE)
              ELSE IF piece # <<>> /\ piece[Len(piece)] \in Terminators
              THEN <<piece>> \o split_sentences(Tail(text), <<>>, TRUE)
              ELSE split_sentences(Tail(text), Append(piece, Head(text)), FALSE)
         ELSE split_sentences(Tail(text), Append(piece, Head(text)), FALSE)

\* if current_chunk.strip(): chunks.append(current_chunk.strip())
Flushed(chunks, current_chunk) ==
    IF strip(current_chunk) # <<>>
    THEN Append(chunks, strip(current_chunk))
    ELSE chunks

\* Faulty variant of ChunkLoop: a sentence that does not fit the chunk in
\* progress is dropped when that chunk is closed.
RECURSIVE ChunkLoopDropping(_, _, _, _)
ChunkLoopDropping(sentences, max_length, chunks, current_chunk) ==
    IF sentences = <<>> THEN Flushed(chunks, current_chunk)
    ELSE LET sentence == Head(sentences)
         IN  IF Len(current_chunk) + Len(sentence) < max_length
             THEN ChunkLoopDropping(Tail(sentences), max_length, chunks,
                                    current_chunk \o sentence \o <<" ">>)
             ELSE ChunkLoopDropping(Tail(sentences), max_length,
                                    Flushed(chunks, current_chunk), <<>>)

\* Lines 88-98: the loop over the sentences and the last chunk.
RECURSIVE ChunkLoop(_, _, _, _)
ChunkLoop(sentences, max_length, chunks, current_chunk) ==
    IF sentences = <<>> THEN Flushed(chunks, current_chunk)
    ELSE LET sentence == Head(sentences)
         IN  IF Len(current_chunk) + Len(sentence) < max_length
             THEN ChunkLoop(Tail(sentences), max_length, chunks,
                            current_chunk \o sentence \o <<" ">>)
             ELSE ChunkLoop(Tail(sentences), max_length,
                            Flushed(chunks, current_chunk),
                            sentence \o <<" ">>)

chunk_text(text, max_length) ==
    ChunkLoop(split_sentences(text, <<>>, FALSE), max_length, <<>>, <<>>)

FilesInit ==
    /\ questions = EmptyTable
    /\ request = NoRequest
    /\ response = NoResponse
    /\ previous = NoPrevious
    /\ handlers = NoHandlers
    /\ sessions = NoSessions
    /\ mcq = NoMcq
    /\ ServicesIdle

CallChunkText(text, max_length) ==
    /\ files = NoCall
    /\ files' = [kind |-> "chunk_text",
                 text |-> text,
                 max_length |-> max_length,
                 chunks |-> chunk_text(Expand(text), max_length)]
    /\ UNCHANGED <<questions, request, response, previous, handlers, sessions,
                   mcq, chunker, http, app, manager>>

FilesNext ==
    /\ files = NoCall
    /\ \E text \in FileTexts, max_length \in MaxLengths :
           CallChunkText(text, max_length)

FilesSpec == FilesInit /\ [][FilesNext]_vars

(***************************************************************************)
(* The start of the application (app/main.py) and POST /api/v1/summarize   *)
(* (app/routers/summarization.py).  main.py imports the routers, whose     *)
(* module-level statements run then, before the startup event and before   *)
(* any request is served.                                                  *)
(***************************************************************************)
SummaryPieces == {<<"a", ".">>, <<"a", "a", "a", ".">>, <<" ">>}
SummaryLengths == {0, 4, 128}
\* What tokenizer.decode can give.
Decodings == {<<>>, <<"a", ".">>}

RECURSIVE Concat(_)
Concat(pieces) ==
    IF pieces = <<>> THEN <<>> ELSE Head(pieces) \o Concat(Tail(pieces))

SummaryTexts ==
    {Concat(pieces) :
        pieces \in UNION {[1 .. n -> SummaryPieces] : n \in 0 .. MaxPieces}}

\* re.sub(r'\s+', ' ', s): every stretch of whitespace becomes one blank.
RECURSIVE re_sub(_)
re_sub(s) ==
    IF s = <<>> THEN <<>>
    ELSE IF Head(s) \in Whitespace
         THEN IF Tail(s) # <<>> /\ Head(Tail(s)) \in Whitespace
              THEN re_sub(Tail(s))
              ELSE <<" ">> \o re_sub(Tail(s))
         ELSE <<Head(s)>> \o re_sub(Tail(s))

\* [s.strip() for s in sentences if s.strip()]
RECURSIVE NonBlank(_)
NonBlank(sentences) ==
    IF sentences = <<>> THEN <<>>
    ELSE (IF strip(Head(sentences)) # <<>>
          THEN <<strip(Head(sentences))>> ELSE <<>>)
             \o NonBlank(Tail(sentences))

\* ' '.join(sentences)
RECURSIVE join(_)
join(sentences) ==
    IF sentences = <<>> THEN <<>>
    ELSE IF Len(sentences) = 1 THEN Head(sentences)
    ELSE Head(sentences) \o <<" ">> \o join(Tail(sentences))

\* Lines 55-60: the sentences taken until one does not fit.
RECURSIVE SelectLoop(_, _, _, _)
SelectLoop(sentences, target_length, selected_sentences, current_length) ==
    IF sentences = <<>> THEN selected_sentences
    ELSE IF current_length + Len(Head(sentences)) <= target_length
    THEN SelectLoop(Tail(sentences), target_length,
                    Append(selected_sentences, Head(sentences)),
                    current_length + Len(Head(sentences)))
    ELSE selected_sentences

generate_fallback_summary(text, max_length) ==
    LET cleaned_text == re_sub(strip(text))
        sentences == NonBlank(split_sentences(cleaned_text, <<>>, FALSE))
        selected_sentences == SelectLoop(sentences, max_length, <<>>, 0)
    IN  IF Len(sentences) <= 3 THEN join(sentences)
        ELSE IF Len(selected_sentences) < 2 /\ Len(sentences) > 2
        THEN join(SubSeq(sentences, 1, 2))
        ELSE join(selected_sentences)

\* Nothing is imported yet.
Booting ==
    [pc |-> "import",
     model_loaded |-> FALSE,
     loads |-> <<>>,
     database |-> "none",
     logged |-> <<>>]

AppInit ==
    /\ questions = EmptyTable
    /\ request = NoRequest
    /\ response = NoResponse
    /\ previous = NoPrevious
    /\ handlers = NoHandlers
    /\ sessions = NoSessions
    /\ mcq = NoMcq
    /\ chunker = NoCall
    /\ http = NoCall
    /\ files = NoCall
    /\ manager = NoCall
    /\ app = Booting

AppOnly ==
    UNCHANGED <<questions, request, response, previous, handlers, sessions, mcq,
                chunker, http, files, manager>>

\* routers/summarization.py, lines 18-30, run by the import of main.py line 6:
\* the BART model is loaded, and a failure is caught.
import_summarization(loads) ==
    /\ app.pc = "import"
    /\ app' = [app EXCEPT !.pc = "import file_summarization",
                          !.model_loaded = loads,
                          !.loads = Append(@, [model |-> "facebook/bart-base",
                                               by |-> "routers.summarization",
                                               loaded |-> loads])]
    /\ AppOnly

\* routers/file_summarization.py, lines 19-21, run by the same import: the
\* BART model of MODEL_DIR is loaded, and a failure leaves the import, and
\* with it main.py.
import_file_summarization(loads) ==
    /\ app.pc = "import file_summarization"
    /\ app' = [app EXCEPT !.pc = IF loads THEN "startup" ELSE "failed",
                          !.loads = Append(@, [model |-> "MODEL_DIR",
                                               by |-> "routers.file_summarization",
                                               loaded |-> loads])]
    /\ AppOnly

\* startup_event, lines 23-33.
startup_event(initialised) ==
    /\ app.pc = "startup"
    /\ app' = [app EXCEPT !.pc = "serving",
                          !.database = IF initialised THEN "initialised"
                                       ELSE "failed",
                          !.logged = IF initialised THEN @
                                     ELSE Append(@, "Database initialization failed")]
    /\ AppOnly

\* The body of the try block of summarize, lines 79-113.
summarize_try(text, max_length, model_loaded, raises, decoded) ==
    IF model_loaded
    THEN IF raises THEN Raises(RuntimeError)
         ELSE Returns([summary |-> decoded,
                       processing_method |-> "BART Model (AI)",
                       model_available |-> TRUE])
    ELSE Returns([summary |-> generate_fallback_summary(text, max_length),
                  processing_method |-> "Fallback (Extractive)",
                  model_available |-> FALSE])

\* Faulty variant of summarize_except: the failure is answered as an error.
summarize_except_failing(outcome, text, max_length) ==
    IF outcome.kind = "raise" /\ outcome.exception.class \in Exceptions
    THEN Raises(HTTPException(500, [failed |-> outcome.exception]))
    ELSE outcome

\* Lines 115-124: except Exception as e.
summarize_except(outcome, text, max_length) ==
    IF outcome.kind = "raise" /\ outcome.exception.class \in Exceptions
    THEN Returns([summary |-> generate_fallback_summary(text, max_length),
                  processing_method |-> "Emergency Fallback",
                  model_available |-> FALSE,
                  error |-> outcome.exception])
    ELSE outcome

\* POST /summarize, lines 73-124.
summarize(text, max_length, raises, decoded) ==
    /\ app.pc = "serving"
    /\ http = NoCall
    /\ http' = [kind |-> "summarize",
                text |-> text,
                max_length |-> max_length,
                raised |-> strip(text) # <<>> /\ app.model_loaded /\ raises,
                answer |->
                    Answer(IF strip(text) = <<>>
                           THEN Raises(HTTPException(400, "Input text is empty"))
                           ELSE summarize_except(
                                    summarize_try(text, max_length,
                                                  app.model_loaded, raises,
                                                  decoded),
                                    text, max_length))]
    /\ UNCHANGED <<questions, request, response, previous, handlers, sessions,
                   mcq, chunker, files, app, manager>>

AppNext ==
    \/ \E loads \in BOOLEAN : import_summarization(loads)
    \/ \E loads \in BOOLEAN : import_file_summarization(loads)
    \/ \E initialised \in BOOLEAN : startup_event(initialised)
    \/ /\ app.pc = "serving"
       /\ http = NoCall
       /\ \E text \in SummaryTexts, max_length \in SummaryLengths,
             raises \in BOOLEAN, decoded \in Decodings :
              summarize(text, max_length, raises, decoded)

AppSpec == AppInit /\ [][AppNext]_vars

(***************************************************************************)
(* ModelManager (app/services/model_manager.py).  An object is the number  *)
(* of its creation: a manager the number of the construction that made     *)
(* it, a tokenizer or a model the number of the load that made it.         *)
(***************************************************************************)
None == 0

\* The class attributes of lines 12-16, before any construction.
ClassModelManager ==
    [_instance |-> None,
     _bart_model |-> None,
     _bart_tokenizer |-> None,
     _t5_model |-> None,
     _t5_tokenizer |-> None,
     instances |-> 0,
     bart_loads |-> 0,
     t5_loads |-> 0,
     returned |-> [call |-> "none"]]

ManagerInit ==
    /\ questions = EmptyTable
    /\ request = NoRequest
    /\ response = NoResponse
    /\ previous = NoPrevious
    /\ handlers = NoHandlers
    /\ sessions = NoSessions
    /\ mcq = NoMcq
    /\ chunker = NoCall
    /\ http = NoCall
    /\ files = NoCall
    /\ app = NoCall
    /\ manager = ClassModelManager

ManagerOnly ==
    UNCHANGED <<questions, request, response, previous, handlers, sessions, mcq,
                chunker, http, files, app>>

\* Lines 19-22: the instance a construction returns.
__new__(instances) ==
    IF manager._instance = None THEN instances + 1 ELSE manager._instance

\* ModelManager(), as in line 89.
ModelManager ==
    /\ manager.instances < MaxInstances
    /\ LET instance == __new__(manager.instances)
       IN  manager' = [manager EXCEPT
                          !._instance = instance,
                          !.instances = IF instance > @ THEN instance ELSE @,
                          !.returned = [call |-> "ModelManager",
                                        instance |-> instance]]
    /\ ManagerOnly

\* Faulty variant of Held: a tokenizer is enough.
HeldTokenizer(tokenizer, model) == tokenizer # None

\* Lines 31 and 47, negated: nothing is to be loaded.
Held(tokenizer, model) == ~(model = None \/ tokenizer = None)

\* Lines 31-43 and 47-60: the pair after the call and the loads made.
LazyLoad(tokenizer, model, loads, succeeds) ==
    IF Held(tokenizer, model)
    THEN [tokenizer |-> tokenizer, model |-> model, loads |-> loads]
    ELSE IF succeeds
    THEN [tokenizer |-> loads + 1, model |-> loads + 1, loads |-> loads + 1]
    ELSE [tokenizer |-> None, model |-> None, loads |-> loads + 1]

get_bart_models(succeeds) ==
    /\ manager._instance # None
    /\ LET after == LazyLoad(manager._bart_tokenizer, manager._bart_model,
                             manager.bart_loads, succeeds)
       IN  /\ after.loads <= MaxLoads
           /\ manager' = [manager EXCEPT
                             !._bart_tokenizer = after.tokenizer,
                             !._bart_model = after.model,
                             !.bart_loads = after.loads,
                             !.returned = [call |-> "get_bart_models",
                                           pair |-> <<after.tokenizer,
                                                      after.model>>]]
    /\ ManagerOnly

get_t5_models(succeeds) ==
    /\ manager._instance # None
    /\ LET after == LazyLoad(manager._t5_tokenizer, manager._t5_model,
                             manager.t5_loads, succeeds)
       IN  /\ after.loads <= MaxLoads
           /\ manager' = [manager EXCEPT
                             !._t5_tokenizer = after.tokenizer,
                             !._t5_model = after.model,
                             !.t5_loads = after.loads,
                             !.returned = [call |-> "get_t5_models",
                                           pair |-> <<after.tokenizer,
                                                      after.model>>]]
    /\ ManagerOnly

\* Faulty variant of Unloaded: a model unloaded is kept.
UnloadedKept(model) == model

\* Lines 64-69: the model attribute after unload_models.
Unloaded(model) == IF model # None THEN None ELSE model

unload_models ==
    /\ manager._instance # None
    /\ manager' = [manager EXCEPT
                      !._bart_model = Unloaded(@),
                      !._t5_model = Unloaded(@),
                      !.returned = [call |-> "unload_models"]]
    /\ ManagerOnly

get_memory_info ==
    /\ manager._instance # None
    /\ manager' = [manager EXCEPT
                      !.returned =
                          [call |-> "get_memory_info",
                           info |-> [bart_loaded |-> manager._bart_model # None,
                                     t5_loaded |-> manager._t5_model # None]]]
    /\ ManagerOnly

ManagerNext ==
    \/ ModelManager
    \/ \E succeeds \in BOOLEAN : get_bart_models(succeeds)
    \/ \E succeeds \in BOOLEAN : get_t5_models(succeeds)
    \/ unload_models
    \/ get_memory_info

ManagerSpec == ManagerInit /\ [][ManagerNext]_vars

(***************************************************************************)
(* What the claims are stated in: the rows of the table as they are, and   *)
(* the arithmetic of the documentation, independent of the definitions     *)
(* above.                                                                  *)
(***************************************************************************)
Returned == request # NoRequest /\ response.kind = "return"
Raised == request # NoRequest /\ response.kind = "raise"

SubjectRows(subject_id) == {q \in DOMAIN questions : q.subject_id = subject_id}
TopicRows(subject_id, topic) ==
    {q \in DOMAIN questions : q.subject_id = subject_id /\ q.topic = topic}
NumRows(S) == Sum(questions, S)
Mean(S) == Rat(Sum([q \in S |-> q.marks * questions[q]], S), NumRows(S))

\* r is x rounded to k decimals: a multiple of 10^-k at most half a unit away.
IsRounded(r, x, k) ==
    /\ Pow10(k) % r.d = 0
    /\ RLeq(RMul(FromInt(2 * Pow10(k)), RAbs(RSub(r, x))), One)

RECURSIVE SumFrequency(_)
SumFrequency(topics) ==
    IF topics = <<>> THEN 0
    ELSE Head(topics).frequency + SumFrequency(Tail(topics))

\* C1: for a subject that has at least one question, the frequencies of the
\* returned topics add up to the number of Question rows of that subject.
C1_FrequencySum ==
    (Returned /\ NumRows(SubjectRows(request.subject_id)) > 0)
        => SumFrequency(response.body.topics)
               = NumRows(SubjectRows(request.subject_id))

C1_Witness ==
    /\ Returned
    /\ Len(response.body.topics) = 2
    /\ NumRows(SubjectRows(request.subject_id)) = 3
    /\ NumRows(Question) = 3

\* C2: avg_marks_per_year of every returned topic is the arithmetic mean,
\* rounded to 2 decimals, of the marks of exactly the rows whose subject_id
\* and topic both match, whatever their years and whatever other rows exist.
C2_AvgIsMean ==
    Returned =>
        \A k \in DOMAIN response.body.topics :
            LET t == response.body.topics[k]
            IN  IsRounded(t.avg_marks_per_year,
                          Mean(TopicRows(request.subject_id, t.topic)), 2)

C2_Witness ==
    /\ Returned
    /\ \E k \in DOMAIN response.body.topics :
          LET t == response.body.topics[k]
              S == {q \in TopicRows(request.subject_id, t.topic) : questions[q] > 0}
          IN  /\ Cardinality({q.year : q \in S}) = 2
              /\ Cardinality({q.marks : q \in S}) = 2
    /\ \E q \in Question : q.subject_id # request.subject_id /\ questions[q] > 0

\* C3: in the returned topics list, a topic that appears before another has
\* a priority_score at least as large, for any weights, negative included.
C3_Descending ==
    Returned =>
        \A i, j \in DOMAIN response.body.topics :
            i < j => RLeq(response.body.topics[j].priority_score,
                          response.body.topics[i].priority_score)

C3_Witness ==
    /\ Returned
    /\ Len(response.body.topics) = 2
    /\ RLess(response.body.topics[2].priority_score,
             response.body.topics[1].priority_score)
    /\ response.body.topics[1].topic = request.group_order[2]
    /\ RLess(request.frequency_weight, Zero)

\* C4: for any finite weights, zero, negative or summing to zero included,
\* the call never fails because of the weights.
C4_NeverFailsOnWeights ==
    ~(Raised /\ response.exception = "ZeroDivisionError")

\* The weights test of the source, written out: |fw + mw - 1.0| > 0.001.
Rescaled(frequency_weight, marks_weight) ==
    LET total == RAdd(frequency_weight, marks_weight)
    IN  \/ RLess(Rat(1001, 1000), total)
        \/ RLess(total, Rat(999, 1000))

\* C5: a returned response contains `warning` exactly when the input weights
\* were rescaled, whether or not the subject has questions; weights (0.3, 0.3)
\* give weights_used (0.5, 0.5) and a warning.
C5_WarningIffRescaled ==
    Returned =>
        /\ ("warning" \in DOMAIN response.body)
               <=> Rescaled(request.frequency_weight, request.marks_weight)
        /\ (request.frequency_weight = Rat(3, 10) /\ request.marks_weight = Rat(3, 10))
               => /\ response.body.weights_used.frequency_weight = Rat(1, 2)
                  /\ response.body.weights_used.marks_weight = Rat(1, 2)
                  /\ "warning" \in DOMAIN response.body

\* C6: for a subject with no Question rows, the call returns topics == []
\* with a message and raises no exception, whatever the weights (the storage
\* being reachable).
C6_EmptySubject ==
    (/\ request # NoRequest
     /\ NumRows(SubjectRows(request.subject_id)) = 0
     /\ response # Raises("StorageError"))
        => /\ response.kind = "return"
           /\ response.body.topics = <<>>
           /\ "message" \in DOMAIN response.body

\* C7: `message` is in the returned dict if and only if `topics` is empty: a
\* subject with at least one question never yields a message, and an empty
\* topics list always comes with one.
C7_MessageIffEmpty ==
    Returned =>
        /\ ("message" \in DOMAIN response.body) <=> (response.body.topics = <<>>)
        /\ NumRows(SubjectRows(request.subject_id)) > 0
               => "message" \notin DOMAIN response.body
        /\ NumRows(SubjectRows(request.subject_id)) = 0
               => "message" \in DOMAIN response.body

C7_Witness ==
    /\ Returned
    /\ response.body.topics = <<>>
    /\ "message" \in DOMAIN response.body
    /\ NumRows(Question) > 0

\* The weights the documentation scores with: the inputs divided by their sum
\* when they were rescaled, the inputs themselves otherwise.
ScoringWeights(frequency_weight, marks_weight) ==
    LET total == RAdd(frequency_weight, marks_weight)
    IN  IF Rescaled(frequency_weight, marks_weight)
        THEN [f |-> RDiv(frequency_weight, total), m |-> RDiv(marks_weight, total)]
        ELSE [f |-> frequency_weight, m |-> marks_weight]

\* frequency * frequency weight + mean marks * marks weight, unrounded.
ExactScore(subject_id, topic, w) ==
    RAdd(RMul(FromInt(NumRows(TopicRows(subject_id, topic))), w.f),
         RMul(Mean(TopicRows(subject_id, topic)), w.m))

\* C8: when the sum of the weights differs from 1.0 by more than 0.001 and is
\* not zero, scoring uses frequency_weight/sum and marks_weight/sum, which sum
\* to 1.0 and keep the ratio of the inputs; weights_used reports them rounded
\* to 3 decimals, so the reported weights sum to 1.0 within 0.001.
C8_NormalizedWeights ==
    (/\ Returned
     /\ Rescaled(request.frequency_weight, request.marks_weight)
     /\ RAdd(request.frequency_weight, request.marks_weight) # Zero)
        => LET w == ScoringWeights(request.frequency_weight, request.marks_weight)
               used == response.body.weights_used
           IN  /\ RAdd(w.f, w.m) = One
               /\ RMul(w.f, request.marks_weight) = RMul(w.m, request.frequency_weight)
               /\ IsRounded(used.frequency_weight, w.f, 3)
               /\ IsRounded(used.marks_weight, w.m, 3)
               /\ RLeq(RAbs(RSub(RAdd(used.frequency_weight, used.marks_weight), One)),
                       Rat(1, 1000))
               /\ \A k \in DOMAIN response.body.topics :
                      LET t == response.body.topics[k]
                      IN  IsRounded(t.priority_score,
                                    ExactScore(request.subject_id, t.topic, w), 3)

C8_Witness ==
    /\ Returned
    /\ Rescaled(request.frequency_weight, request.marks_weight)
    /\ response.body.topics # <<>>
    /\ response.body.weights_used.frequency_weight
           # ScoringWeights(request.frequency_weight, request.marks_weight).f
    /\ RLess(request.frequency_weight, Zero)

Resubmitted == previous # NoPrevious /\ Returned

TopicFacts(topics) ==
    {[topic |-> topics[k].topic, frequency |-> topics[k].frequency,
      avg_marks_per_year |-> topics[k].avg_marks_per_year] : k \in DOMAIN topics}

\* C9 as stated: passing the weights_used of a previous result (or any
\* weights summing to 1.0 within 0.001) back in produces no warning and the
\* same weights_used, topics and scores as before.
C9_Idempotent ==
    /\ (Returned /\ ~Rescaled(request.frequency_weight, request.marks_weight))
           => "warning" \notin DOMAIN response.body
    /\ (Resubmitted /\ request.group_order = previous.request.group_order)
           => /\ "warning" \notin DOMAIN response.body
              /\ response.body.weights_used = previous.response.body.weights_used
              /\ response.body.topics = previous.response.body.topics

\* C9 amended: weights summing to 1.0 within 0.001 produce no warning and are
\* reported unchanged to 3 decimals; passing the weights_used of a previous
\* result back in, when they sum to 1.0 within 0.001, produces no warning, the
\* same weights_used and the same topics with the same frequency and
\* avg_marks_per_year (the scores are recomputed from the rounded weights).
C9_IdempotentWithinTolerance ==
    /\ (Returned /\ ~Rescaled(request.frequency_weight, request.marks_weight))
           => /\ "warning" \notin DOMAIN response.body
              /\ IsRounded(response.body.weights_used.frequency_weight,
                           request.frequency_weight, 3)
              /\ IsRounded(response.body.weights_used.marks_weight,
                           request.marks_weight, 3)
    /\ (Resubmitted /\ ~Rescaled(request.frequency_weight, request.marks_weight))
           => /\ request.frequency_weight
                     = previous.response.body.weights_used.frequency_weight
              /\ request.marks_weight
                     = previous.response.body.weights_used.marks_weight
              /\ "warning" \notin DOMAIN response.body
              /\ response.body.weights_used = previous.response.body.weights_used
              /\ TopicFacts(response.body.topics)
                     = TopicFacts(previous.response.body.topics)

C9_Witness ==
    /\ Resubmitted
    /\ ~Rescaled(request.frequency_weight, request.marks_weight)
    /\ "warning" \in DOMAIN previous.response.body
    /\ request.group_order = previous.request.group_order
    /\ response.body.topics # previous.response.body.topics

\* C10: priority_score of every returned topic is frequency * normalized
\* frequency weight + unrounded mean marks * normalized marks weight, rounded
\* to 3 decimals, and avg_marks_per_year is the mean rounded to 2 decimals.
C10_ScoreFromUnroundedMean ==
    Returned =>
        \A k \in DOMAIN response.body.topics :
            LET t == response.body.topics[k]
                w == ScoringWeights(request.frequency_weight, request.marks_weight)
            IN  /\ t.frequency = NumRows(TopicRows(request.subject_id, t.topic))
                /\ IsRounded(t.avg_marks_per_year,
                             Mean(TopicRows(request.subject_id, t.topic)), 2)
                /\ IsRounded(t.priority_score,
                             ExactScore(request.subject_id, t.topic, w), 3)

\* A returned topic whose score differs from the one its rounded
\* avg_marks_per_year would give.
C10_Witness ==
    /\ Returned
    /\ \E k \in DOMAIN response.body.topics :
          LET t == response.body.topics[k]
              w == ScoringWeights(request.frequency_weight, request.marks_weight)
          IN  ~IsRounded(t.priority_score,
                         RAdd(RMul(FromInt(t.frequency), w.f),
                              RMul(t.avg_marks_per_year, w.m)), 3)

\* The four subject-1 questions of the scenario.
ScenarioRows ==
    {q \in SeedRows : q.topic \in {"Networking", "DB Normalization"}}

\* C11: with the four subject-1 questions (Networking 10 and 15, DB
\* Normalization 12 and 8) and the default weights 0.6/0.4 the result is
\* exactly [Networking, DB Normalization] with priority_score 6.2 and 5.2,
\* frequency 2 each, and no warning.
C11_Scenario ==
    (/\ Returned
     /\ request.subject_id = 1
     /\ request.frequency_weight = Rat(3, 5)
     /\ request.marks_weight = Rat(2, 5)
     /\ {q \in SubjectRows(1) : questions[q] > 0} = ScenarioRows)
        => /\ response.body.topics =
                  <<[topic |-> "Networking", frequency |-> 2,
                     avg_marks_per_year |-> Rat(25, 2),
                     priority_score |-> Rat(62, 10)],
                    [topic |-> "DB Normalization", frequency |-> 2,
                     avg_marks_per_year |-> FromInt(10),
                     priority_score |-> Rat(52, 10)]>>
           /\ "warning" \notin DOMAIN response.body

C11_Witness ==
    /\ Returned
    /\ request.subject_id = 1
    /\ request.frequency_weight = Rat(3, 5)
    /\ request.marks_weight = Rat(2, 5)
    /\ {q \in SubjectRows(1) : questions[q] > 0} = ScenarioRows
    /\ request.group_order = <<"DB Normalization", "Networking">>
    /\ NumRows(SubjectRows(2)) = 1

\* The topics the subject of the request has rows for.
PresentTopics ==
    {q.topic : q \in {r \in SubjectRows(request.subject_id) : questions[r] > 0}}

\* C12: when the query fails the call ends in an error, never in an empty or
\* partial result; every call ends either in an error or in a result that
\* ranks every topic of the subject.
C12_StorageFailureSurfaces ==
    request # NoRequest =>
        /\ ~request.available => response.kind = "raise"
        /\ (/\ ~request.available
            /\ RAdd(request.frequency_weight, request.marks_weight) # Zero)
               => response = Raises("StorageError")
        /\ response.kind \in {"return", "raise"}
        /\ response.kind = "return"
               => /\ Len(response.body.topics) = Cardinality(PresentTopics)
                  /\ {response.body.topics[k].topic : k \in DOMAIN response.body.topics}
                         = PresentTopics

C12_Witness ==
    /\ request # NoRequest
    /\ ~request.available
    /\ response = Raises("StorageError")
    /\ Cardinality(PresentTopics) = 2

\* C13: a scoring call, whatever its arguments and whether it returns or
\* raises, leaves every row of the questions table as it was.
C13_StoreUnchanged ==
    [][request' # NoRequest => questions' = questions]_vars

C13_Witness ==
    /\ previous # NoPrevious
    /\ response.kind = "raise"
    /\ NumRows(DOMAIN questions) > 1

\* The table with the rows of every other subject taken out.
OnlySubject(rows, subject_id) ==
    [q \in DOMAIN rows |-> IF q.subject_id = subject_id THEN rows[q] ELSE 0]

\* C17: the outcome of a call for a subject is the outcome the same call has
\* on the table holding that subject's rows alone; rows of other subjects
\* have no influence on it.
C17_SubjectsIndependent ==
    request # NoRequest =>
        response = calculate_priority_scores(
                       [rows |-> OnlySubject(questions, request.subject_id),
                        group_order |-> SelectSeq(request.group_order,
                                           LAMBDA t : t \in PresentTopics),
                        available |-> request.available],
                       request.subject_id,
                       request.frequency_weight,
                       request.marks_weight)

C17_Witness ==
    /\ Returned
    /\ Len(response.body.topics) = 1
    /\ \E q \in DOMAIN questions :
          /\ questions[q] > 0
          /\ q.subject_id # request.subject_id
          /\ q.topic = response.body.topics[1].topic
    /\ \E q \in DOMAIN questions :
          /\ questions[q] > 0
          /\ q.subject_id # request.subject_id
          /\ q.topic # response.body.topics[1].topic

\* The place of a topic in the order the query returned the groups in.
GroupPosition(topic) ==
    CHOOSE k \in DOMAIN request.group_order : request.group_order[k] = topic

\* C16: the ranking is by the rounded priority_score, and topics whose
\* rounded scores are equal stay in the order the query returned them in,
\* whatever their unrounded scores are.
C16_StableOnRoundedScore ==
    Returned =>
        \A i, j \in DOMAIN response.body.topics :
            i < j =>
                LET a == response.body.topics[i]
                    b == response.body.topics[j]
                IN  /\ RLeq(b.priority_score, a.priority_score)
                    /\ a.priority_score = b.priority_score
                           => GroupPosition(a.topic) < GroupPosition(b.topic)

C16_Witness ==
    /\ Returned
    /\ Len(response.body.topics) = 2
    /\ response.body.topics[1].priority_score
           = response.body.topics[2].priority_score
    /\ LET w == ScoringWeights(request.frequency_weight, request.marks_weight)
       IN  RLess(ExactScore(request.subject_id, response.body.topics[1].topic, w),
                 ExactScore(request.subject_id, response.body.topics[2].topic, w))
    /\ ~ \E r \in {Rat(n, 2000) : n \in 0 .. 20000} :
           ExactScore(request.subject_id, response.body.topics[1].topic,
                      ScoringWeights(request.frequency_weight, request.marks_weight)) = r

\* C19: the endpoint answers with exactly what calculate_priority_scores
\* gives for the subject and the two weights, an omitted frequency_weight
\* standing for 0.6 and an omitted marks_weight for 0.4, each on its own;
\* with both omitted the result reports weights 0.6 and 0.4 and no warning.
C19_EndpointDelegates ==
    request # NoRequest =>
        LET given == request.query
            frequency_weight == IF given.frequency_weight = Omitted
                                THEN Rat(6, 10) ELSE given.frequency_weight
            marks_weight == IF given.marks_weight = Omitted
                            THEN Rat(4, 10) ELSE given.marks_weight
        IN  /\ response = calculate_priority_scores(
                              [rows |-> questions,
                               group_order |-> request.group_order,
                               available |-> request.available],
                              request.subject_id, frequency_weight, marks_weight)
            /\ (/\ given.frequency_weight = Omitted
                /\ given.marks_weight = Omitted
                /\ response.kind = "return")
                   => /\ response.body.weights_used
                             = [frequency_weight |-> Rat(6, 10),
                                marks_weight |-> Rat(4, 10)]
                      /\ "warning" \notin DOMAIN response.body

C19_Witness ==
    /\ Returned
    /\ request.query.frequency_weight = Rat(3, 10)
    /\ request.query.marks_weight = Omitted
    /\ Len(response.body.topics) = 3
    /\ "warning" \in DOMAIN response.body

\* The handlers that have their outcome.
Answered(c) == handlers[c].pc \in {"returned", "raised", "finished"}

\* C14: with the table left as it is, whatever way the steps of the requests
\* in flight interleave, the outcome of each request is the outcome of
\* calculate_priority_scores run on its own with the same arguments.
C14_NoInterference ==
    \A c \in Clients :
        Answered(c) =>
            handlers[c].response
                = calculate_priority_scores(
                      [rows |-> questions,
                       group_order |-> handlers[c].group_order,
                       available |-> handlers[c].available],
                      handlers[c].subject_id,
                      handlers[c].frequency_weight,
                      handlers[c].marks_weight)

C14_Witness ==
    \E c, d \in Clients :
        /\ handlers[c].pc = "returned"
        /\ handlers[d].pc = "returned"
        /\ handlers[c].subject_id = handlers[d].subject_id
        /\ handlers[c].frequency_weight # handlers[d].frequency_weight
        /\ Len(handlers[c].response.body.topics) = 2
        /\ handlers[c].response.body.topics # handlers[d].response.body.topics

\* The sessions open over all clients.
OpenSessions == Sum(sessions, Clients)

\* C15: a request in flight holds exactly one session, a request that has
\* finished, having returned or raised, holds none, and once every request
\* has finished no session is open.
C15_OneSessionPerRequest ==
    /\ \A c \in Clients :
          sessions[c] = IF handlers[c].pc \in {"idle", "finished"} THEN 0 ELSE 1
    /\ (\A c \in Clients : handlers[c].pc = "finished") => OpenSessions = 0

C15_Witness ==
    /\ \A c \in Clients : handlers[c].pc = "finished"
    /\ \E c, d \in Clients : /\ handlers[c].response.kind = "raise"
                             /\ handlers[d].response.kind = "return"
    /\ OpenSessions = 0

\* What the query of a request for a subject gives on the table as it is:
\* one group for each topic the subject has rows for, with the number of its
\* rows and the mean of their marks.
ReflectsTable(results, subject_id) ==
    /\ Len(results) = Cardinality({q.topic : q \in {r \in SubjectRows(subject_id) :
                                                       questions[r] > 0}})
    /\ \A k \in DOMAIN results :
          LET rows == TopicRows(subject_id, results[k].topic)
          IN  /\ NumRows(rows) > 0
              /\ results[k].frequency = NumRows(rows)
              /\ results[k].avg_marks = Mean(rows)
    /\ \A i, j \in DOMAIN results : i # j => results[i].topic # results[j].topic

\* C18: while rows are being inserted, the groups a request scores are the
\* groups of the table at the moment of its query, whatever earlier requests
\* have read, and its answer lists those groups with those frequencies.
C18_ComputedFresh ==
    [][\A c \in Clients :
          /\ (handlers[c].pc = "normalized" /\ handlers'[c].pc = "queried")
                => ReflectsTable(handlers'[c].results, handlers[c].subject_id)
          /\ (handlers[c].pc = "queried" /\ handlers'[c].pc = "returned")
                => {<<t.topic, t.frequency>> :
                        t \in {handlers'[c].response.body.topics[k] :
                                 k \in DOMAIN handlers'[c].response.body.topics}}
                   = {<<t.topic, t.frequency>> :
                        t \in {handlers[c].results[k] :
                                 k \in DOMAIN handlers[c].results}}]_vars

C18_Witness ==
    \E c, d \in Clients :
        /\ handlers[c].pc = "returned"
        /\ handlers[d].pc = "returned"
        /\ handlers[c].subject_id = handlers[d].subject_id
        /\ handlers[c].frequency_weight = handlers[d].frequency_weight
        /\ Len(handlers[c].response.body.topics) = 1
        /\ Len(handlers[d].response.body.topics) = 2
        /\ ReflectsTable(handlers[d].results, handlers[d].subject_id)

\* The sentences of a text that count: each stretch of the text between
\* terminators, from its first to its last character that is not
\* whitespace, when that is more than 20 characters.
SentenceStarts(text) ==
    {i \in DOMAIN text :
        /\ text[i] \notin {".", "!", "?"}
        /\ i = 1 \/ text[i - 1] \in {".", "!", "?"}}

StretchEnd(text, i) ==
    CHOOSE j \in i .. Len(text) :
        /\ \A k \in i .. j : text[k] \notin {".", "!", "?"}
        /\ j = Len(text) \/ text[j + 1] \in {".", "!", "?"}

StrippedLength(text, i) ==
    LET inked == {k \in i .. StretchEnd(text, i) : text[k] # " "}
    IN  IF inked = {} THEN 0
        ELSE (CHOOSE k \in inked : \A o \in inked : o <= k)
               - (CHOOSE k \in inked : \A o \in inked : k <= o) + 1

CountedSentences(text) ==
    Cardinality({i \in SentenceStarts(text) : StrippedLength(text, i) > 20})

McqReturned == mcq.kind = "result"

\* C20 as stated: the call returns exactly min(num_questions, number of
\* sentences whose stripped length exceeds 20) questions, never more than
\* num_questions, and none when the text has no such sentence.
C20_ExactlyMin ==
    McqReturned =>
        LET counted == CountedSentences(Expand(mcq.text))
        IN  /\ Len(mcq.questions) = min(mcq.num_questions, counted)
            /\ Len(mcq.questions) <= mcq.num_questions
            /\ counted = 0 => mcq.questions = <<>>

\* C20, amended: for num_questions >= 0 the call returns exactly
\* min(num_questions, number of sentences whose stripped length exceeds 20)
\* questions, never more than num_questions; for a negative num_questions it
\* returns none; it returns none when the text has no such sentence.
C20_ExactlyMinOfNonNegative ==
    McqReturned =>
        LET counted == CountedSentences(Expand(mcq.text))
        IN  /\ mcq.num_questions >= 0
                => /\ Len(mcq.questions) = min(mcq.num_questions, counted)
                   /\ Len(mcq.questions) <= mcq.num_questions
            /\ mcq.num_questions < 0 => mcq.questions = <<>>
            /\ counted = 0 => mcq.questions = <<>>

C20_Witness ==
    /\ McqReturned
    /\ CountedSentences(Expand(mcq.text)) = 2
    /\ mcq.num_questions = 1
    /\ Len(mcq.questions) = 1

\* C21: whatever the shuffles leave, every question returned has exactly 4
\* options, the correct one and the 3 incorrect ones, a
\* correct_answer_index from 0 to 3 at which the options hold
\* correct_answer, and the ids are 1..n in order.
C21_OptionsStructure ==
    McqReturned =>
        \A k \in DOMAIN mcq.questions :
            LET q == mcq.questions[k]
            IN  /\ Len(q.options) = 4
                /\ {q.options[o] : o \in DOMAIN q.options}
                       = {"The statement provides information about the topic.",
                          "The statement is completely false.",
                          "The statement has no meaning.",
                          "The statement is irrelevant."}
                /\ q.correct_answer
                       = "The statement provides information about the topic."
                /\ q.correct_answer_index \in 0 .. 3
                /\ q.options[q.correct_answer_index + 1] = q.correct_answer
                /\ q.id = k

C21_Witness ==
    /\ McqReturned
    /\ Len(mcq.questions) = 2
    /\ mcq.questions[1].correct_answer_index = 3
    /\ mcq.questions[2].correct_answer_index = 0
    /\ mcq.questions[2].id = 2

\* C29: in a returned result every topic appears once, the topics are
\* exactly the topic strings, compared as they are, of the rows of the
\* subject, and every frequency is at least 1.
C29_TopicsOncePerString ==
    Returned =>
        LET topics == response.body.topics
        IN  /\ \A i, j \in DOMAIN topics : i # j => topics[i].topic # topics[j].topic
            /\ {topics[k].topic : k \in DOMAIN topics}
                   = {q.topic : q \in {r \in DOMAIN questions :
                                          /\ questions[r] > 0
                                          /\ r.subject_id = request.subject_id}}
            /\ \A k \in DOMAIN topics : topics[k].frequency >= 1

C29_Witness ==
    /\ Returned
    /\ Len(response.body.topics) = 2
    /\ {response.body.topics[k].topic : k \in DOMAIN response.body.topics}
           = {"Networking", "networking"}
    /\ \E q \in DOMAIN questions :
          /\ questions[q] > 0
          /\ q.subject_id # request.subject_id
          /\ q.topic = "DB Normalization"

\* C22: every call of TextChunker.chunk_text returns, whatever the number
\* of words and for the chosen as well as the default chunk size and
\* overlap; and so do generate_flashcards and generate_mcqs, which loop
\* over the chunks it returns.
C22_ChunkTextTerminates ==
    (chunker # NoCall) ~> (chunker # NoCall /\ chunker.pc = "returned")

\* The request text of the answered POST, stripped.
PostedText == strip(Expand(http.text))

McqAnswered == http # NoCall /\ http.kind = "generate_mcq"

\* No question can be built: none is asked for, or the text is one word.
NothingToAsk ==
    \/ http.num_questions = 0
    \/ \A k \in DOMAIN PostedText : PostedText[k] \notin Whitespace

\* C23: POST /api/v1/mcq/generate answers a text that is empty after
\* stripping with status 400 and "Text cannot be empty", a stripped text of
\* fewer than 50 characters with status 400, a text no question can be
\* built from with status 400, and answers 500 only when something
\* unexpected failed.
C23_StatusCodes ==
    McqAnswered =>
        /\ PostedText = <<>>
               => /\ http.answer.status = 400
                  /\ http.answer.detail = "Text cannot be empty"
        /\ (PostedText # <<>> /\ Len(PostedText) < 50)
               => http.answer.status = 400
        /\ (Len(PostedText) >= 50 /\ ~http.unexpected /\ NothingToAsk)
               => http.answer.status = 400
        /\ http.answer.status = 500 => http.unexpected

ChunkTextReturned == files # NoCall /\ files.kind = "chunk_text"

\* C24: every chunk chunk_text returns has at most max_length characters,
\* also when the text holds a sentence longer than max_length.
C24_ChunksFitLimit ==
    ChunkTextReturned =>
        \A k \in DOMAIN files.chunks : Len(files.chunks[k]) <= files.max_length

\* The sentences of a text that are not blank, without the whitespace
\* around them, in their order.
RECURSIVE Stripped(_)
Stripped(pieces) ==
    IF pieces = <<>> THEN <<>>
    ELSE (IF strip(Head(pieces)) = <<>> THEN <<>> ELSE <<strip(Head(pieces))>>)
             \o Stripped(Tail(pieces))

SentencesOf(text) == Stripped(split_sentences(text, <<>>, FALSE))

RECURSIVE SentencesOfAll(_)
SentencesOfAll(chunks) ==
    IF chunks = <<>> THEN <<>>
    ELSE SentencesOf(Head(chunks)) \o SentencesOfAll(Tail(chunks))

\* C30: the sentences of the chunks chunk_text returns, read in order, are
\* the sentences of the text in their order, none dropped, repeated or
\* moved, and no chunk is empty.
C30_NothingLost ==
    ChunkTextReturned =>
        /\ SentencesOfAll(files.chunks) = SentencesOf(Expand(files.text))
        /\ \A k \in DOMAIN files.chunks : files.chunks[k] # <<>>

C30_Witness ==
    /\ ChunkTextReturned
    /\ Len(files.chunks) = 2
    /\ Len(SentencesOf(Expand(files.text))) = 3
    /\ Len(SentencesOf(files.chunks[1])) = 2
    /\ Len(SentencesOf(files.chunks[2])) = 1

SummarizeAnswered == http # NoCall /\ http.kind = "summarize"

\* C25: POST /summarize answers a text that is empty after stripping with
\* status 400; every other text is answered with a summary and never with
\* an error, the processing method being "BART Model (AI)" when the model
\* is loaded and generation succeeds, "Fallback (Extractive)" when the model
\* is not loaded and "Emergency Fallback", with the error, when generation
\* raises; the summary of either fallback is not empty.
C25_AlwaysSummary ==
    SummarizeAnswered =>
        IF \A k \in DOMAIN http.text : http.text[k] \in Whitespace
        THEN http.answer.status = 400
        ELSE /\ http.answer.status = 200
             /\ "summary" \in DOMAIN http.answer.body
             /\ http.answer.body.processing_method =
                    IF ~app.model_loaded THEN "Fallback (Extractive)"
                    ELSE IF http.raised THEN "Emergency Fallback"
                    ELSE "BART Model (AI)"
             /\ (http.answer.body.processing_method = "Emergency Fallback")
                    <=> ("error" \in DOMAIN http.answer.body)
             /\ http.answer.body.processing_method # "BART Model (AI)"
                    => http.answer.body.summary # <<>>

C25_Witness ==
    /\ SummarizeAnswered
    /\ http.answer.status = 200
    /\ http.answer.body.processing_method = "Emergency Fallback"
    /\ http.max_length = 0
    /\ Len(http.answer.body.summary) < Len(strip(http.text))

\* C26: when the application starts no model load has happened before the
\* first request that needs the model, and a failure of the database
\* initialisation is logged and the application serves all the same.
C26_NoLoadBeforeRequest ==
    /\ http = NoCall => \A k \in DOMAIN app.loads : ~app.loads[k].loaded
    /\ app.database = "failed"
           => /\ app.pc = "serving"
              /\ "Database initialization failed" \in
                     {app.logged[k] : k \in DOMAIN app.logged}

\* The attributes of the manager, the answer of the last call left out.
Attributes ==
    <<manager._instance, manager._bart_model, manager._bart_tokenizer,
      manager._t5_model, manager._t5_tokenizer, manager.instances,
      manager.bart_loads, manager.t5_loads>>

\* The step is a call of the method: the answer of the last call is its.
Calls(method) == manager'.returned.call = method
After(method) == manager.returned.call = method

NothingLoaded == manager._bart_model = None /\ manager._t5_model = None

\* C27: a get_memory_info that follows unload_models reports bart_loaded
\* and t5_loaded false, whatever was loaded before; a get_bart_models or
\* get_t5_models that follows unload_models loads the model again; and
\* unload_models on a manager with nothing loaded changes nothing.
C27_UnloadForgets ==
    [][/\ (After("unload_models") /\ Calls("get_memory_info"))
              => manager'.returned.info =
                     [bart_loaded |-> FALSE, t5_loaded |-> FALSE]
       /\ (After("unload_models") /\ Calls("get_bart_models"))
              => manager'.bart_loads = manager.bart_loads + 1
       /\ (After("unload_models") /\ Calls("get_t5_models"))
              => manager'.t5_loads = manager.t5_loads + 1
       /\ (NothingLoaded /\ Calls("unload_models"))
              => Attributes' = Attributes]_vars

C27_Witness ==
    /\ manager # NoCall
    /\ manager.returned.call = "get_memory_info"
    /\ manager.returned.info = [bart_loaded |-> FALSE, t5_loaded |-> FALSE]
    /\ manager._bart_tokenizer # None
    /\ manager._t5_tokenizer # None
    /\ manager.bart_loads = 2

BartHeld == manager._bart_model # None /\ manager._bart_tokenizer # None
T5Held == manager._t5_model # None /\ manager._t5_tokenizer # None

\* The answer is a pair both of whose parts are present or both None.
Paired(pair) == (pair[1] = None) <=> (pair[2] = None)

\* C28: every construction returns the one manager; a get_bart_models or
\* get_t5_models call returns a tokenizer and a model that are both present
\* or both None, None only when the call made a load; and a load is made
\* only when the model is not held, so that calls on a held model make no
\* load and return the pair of the one load that made it.
C28_OneInstanceOneLoad ==
    [][/\ Calls("ModelManager")
              => /\ manager'.returned.instance # None
                 /\ manager._instance # None
                        => manager'.returned.instance = manager._instance
                 /\ manager'.instances = 1
       /\ Calls("get_bart_models")
              => /\ Paired(manager'.returned.pair)
                 /\ manager'.returned.pair[1] = None
                        => manager'.bart_loads = manager.bart_loads + 1
                 /\ IF BartHeld
                    THEN /\ manager'.bart_loads = manager.bart_loads
                         /\ manager'.returned.pair =
                                <<manager._bart_tokenizer, manager._bart_model>>
                    ELSE manager'.bart_loads = manager.bart_loads + 1
       /\ Calls("get_t5_models")
              => /\ Paired(manager'.returned.pair)
                 /\ manager'.returned.pair[1] = None
                        => manager'.t5_loads = manager.t5_loads + 1
                 /\ IF T5Held
                    THEN /\ manager'.t5_loads = manager.t5_loads
                         /\ manager'.returned.pair =
                                <<manager._t5_tokenizer, manager._t5_model>>
                    ELSE manager'.t5_loads = manager.t5_loads + 1]_vars

C28_Witness ==
    /\ manager # NoCall
    /\ manager.returned.call = "get_bart_models"
    /\ manager.returned.pair = <<2, 2>>
    /\ manager.bart_loads = 2
    /\ manager._instance = 1
    /\ manager.instances = 1
    /\ T5Held

====
